---------------------------- MODULE Spec2Model ----------------------------
(***************************************************************************)
(* A model of src/models/train_classifier.py: the training script of a     *)
(* multi-label disaster-message classifier.                                *)
(*                                                                         *)
(* Spec      : runs of main() (lines 180-215), one action per statement    *)
(*             that changes state, with GridSearchCV.fit unfolded into its *)
(*             fold-fits, selection and refit, and save_model unfolded     *)
(*             into open() and pickle.dump().                              *)
(* SpecUnits : direct calls of build_model, evaluate_model and             *)
(*             get_text_embeddings.transform on inputs from bounded sets.  *)
(*                                                                         *)
(* Conventions.  A pandas Series / DataFrame is a sequence of records      *)
(* [idx, val] / [idx, row]: idx is the row label, the position in the      *)
(* sequence is the row position (TLA+ position p is pandas position p-1).  *)
(* Real numbers are kept as integers: decision scores in tenths, learning  *)
(* rates in hundredths.                                                     *)
(***************************************************************************)
EXTENDS Integers, Sequences, FiniteSets

VARIABLES
    argv_len,          \* len(sys.argv) of the current process
    database,          \* what create_engine/read_sql_table find at argv[1]
    table,             \* the label pattern of every category column of the table
    pc,                \* position of main()
    stdout,            \* milestones printed so far by this run
    error,             \* the exception that ended the run ("" = none)
    X, Y,              \* load_data's messages and label matrix
    category_names,    \* load_data's third result
    X_train, X_test,   \* train_test_split's results (Series)
    Y_train, Y_test,   \* train_test_split's results (DataFrames)
    transformer_model, \* the module global of line 189
    model,             \* the GridSearchCV object built by build_model
    search,            \* the progress of GridSearchCV.fit
    report,            \* what evaluate_model handed to classification_report
    file,              \* the file at argv[2]
    runs,              \* number of processes started so far
    prev,              \* history: the previous run's split and file
    call               \* SpecUnits: the direct call in progress

vars == << argv_len, database, table, pc, stdout, error, X, Y, category_names,
           X_train, X_test, Y_train, Y_test, transformer_model, model, search,
           report, file, runs, prev, call >>

mainVars == << argv_len, database, table, pc, stdout, error, X, Y,
               category_names, X_train, X_test, Y_train, Y_test,
               transformer_model, model, search, report, file, runs, prev >>

-----------------------------------------------------------------------------
(* Bounds of the model *)

\* rows of DisasterResponse_table
NumRows == 7
\* largest len(sys.argv) tried
MaxArgs == 4
\* seeds the unseeded global numpy generator may start from: 0..MaxSeed
MaxSeed == 2
\* processes started one after the other on the same table and model path
MaxRuns == 2
\* fold scores are drawn from 0..MaxScore
MaxScore == 2

-----------------------------------------------------------------------------
(* Helpers *)

Range(s) == { s[i] : i \in 1..Len(s) }

RECURSIVE SumSeq(_)
SumSeq(s) == IF s = << >> THEN 0 ELSE Head(s) + SumSeq(Tail(s))

RECURSIVE ProdLens(_)
ProdLens(g) == IF g = << >> THEN 1 ELSE Len(Head(g).values) * ProdLens(Tail(g))

-----------------------------------------------------------------------------
(* The input table: DisasterResponse_table *)

\* the category columns, in table order
CategoryColumns == << "water", "shelter" >>

\* the four columns in front of the category block
LeadingColumns == << "id", "message", "original", "genre" >>

Patterns == { "zeros", "ones", "single", "mixed" }

\* the value of a category column with pattern p in the row labelled r
Label(p, r) ==
    CASE p = "zeros"  -> 0
      [] p = "ones"   -> 1
      [] p = "single" -> IF r = 0 THEN 1 ELSE 0
      [] OTHER        -> r % 2

\* the tables tried: at most one category column departs from "mixed"
Tables ==
    { t \in [ Range(CategoryColumns) -> Patterns ] :
        Cardinality({ c \in Range(CategoryColumns) : t[c] # "mixed" }) <= 1 }

\* the table all of whose category columns hold both values
MixedTable == [ c \in Range(CategoryColumns) |-> "mixed" ]

\* pd.read_sql_table: a frame with a RangeIndex 0..n-1; row r holds message r
read_sql_table(t) ==
    [ columns |-> LeadingColumns \o CategoryColumns,
      rows    |-> [ p \in 1..NumRows |->
                      [ c \in Range(LeadingColumns) \cup Range(CategoryColumns) |->
                          IF c = "message" THEN p - 1
                          ELSE IF c \in Range(CategoryColumns) THEN Label(t[c], p - 1)
                          ELSE 0 ] ] ]

\* df.iloc[:, 4:] starts at the fifth column
CategoryOffset == 4

\* load_data: X = df['message'], y = df.iloc[:, 4:], category_names = y.columns
load_data(t) ==
    LET df   == read_sql_table(t)
        cols == SubSeq(df.columns, CategoryOffset + 1, Len(df.columns))
    IN  [ X |-> [ p \in 1..Len(df.rows) |->
                    [ idx |-> p - 1, val |-> df.rows[p]["message"] ] ],
          y |-> [ p \in 1..Len(df.rows) |->
                    [ idx |-> p - 1,
                      row |-> [ j \in 1..Len(cols) |-> df.rows[p][cols[j]] ] ] ],
          category_names |-> cols ]


-----------------------------------------------------------------------------
(* train_test_split(X, Y, test_size=0.2), line 187 *)

\* test_size = 0.2, in tenths
test_size == 2

\* ShuffleSplit's sizes: n_test = ceil(test_size * n), n_train = n - n_test
n_test(n) == (test_size * n + 9) \div 10
n_train(n) == n - n_test(n)

\* No random_state is passed, so the split draws from numpy's global generator,
\* which every process seeds afresh from the operating system.  The orders a
\* seed in 0..MaxSeed yields: a rotation of the rows, reversed for an odd seed.
permutation(seed, n) ==
    [ i \in 1..n |-> IF seed % 2 = 0 THEN ((i - 1 + seed) % n) + 1
                                     ELSE n - ((i - 1 + seed) % n) ]

\* the first n_test entries of the permutation are held out, the rest train
ind_test(seed, n)  == SubSeq(permutation(seed, n), 1, n_test(n))
ind_train(seed, n) == SubSeq(permutation(seed, n), n_test(n) + 1, n_test(n) + n_train(n))

\* positional selection of rows (_safe_indexing / iloc): labels travel along
Take(S, ind) == [ i \in 1..Len(ind) |-> S[ind[i]] ]

train_test_split(Xs, Ys, seed) ==
    [ X_train |-> Take(Xs, ind_train(seed, Len(Xs))),
      X_test  |-> Take(Xs, ind_test(seed, Len(Xs))),
      Y_train |-> Take(Ys, ind_train(seed, Len(Xs))),
      Y_test  |-> Take(Ys, ind_test(seed, Len(Xs))) ]

-----------------------------------------------------------------------------
(* build_model, lines 110-146 *)

\* class names of the classifiers a caller may pass
ClfKinds == { "LogisticRegression", "AdaBoostClassifier", "LinearRegression",
              "RandomForestClassifier" }

\* the default argument of build_model: logestic_regression() is sklearn's
\* LogisticRegression (line 15)
DefaultClf == "LogisticRegression"

\* the classifier main passes at line 198
MainClf == "AdaBoostClassifier"

\* lines 133-137
LogisticGrid ==
    << [ name |-> "clf__estimator__max_iter", values |-> << 100, 150 >> ],
       [ name |-> "clf__estimator__penalty",  values |-> << "l1", "l2" >> ] >>

\* lines 139-142 (learning rates in hundredths)
AdaBoostGrid ==
    << [ name |-> "clf__estimator__learning_rate", values |-> << 5, 50, 100 >> ],
       [ name |-> "clf__estimator__n_estimators",  values |-> << 10, 20, 30 >> ] >>

\* cv=5 at line 144
cv == 5

\* lines 117-130: the pipeline object
Pipeline(tm, clf) ==
    [ features |-> << "tfidfvect", "embeddings" >>,
      transformer_model |-> tm,
      clf |-> clf ]

\* lines 132-146.  `parameters` is bound only in the two branches; with any
\* other class name line 144 reads an unbound local and raises.
build_model(tm, clf) ==
    IF clf = "LinearRegression"
    THEN [ ok |-> TRUE, error |-> "",
           cv |-> [ estimator |-> Pipeline(tm, clf), param_grid |-> LogisticGrid, cv |-> cv ] ]
    ELSE IF clf = "AdaBoostClassifier"
    THEN [ ok |-> TRUE, error |-> "",
           cv |-> [ estimator |-> Pipeline(tm, clf), param_grid |-> AdaBoostGrid, cv |-> cv ] ]
    ELSE [ ok |-> FALSE, error |-> "UnboundLocalError",
           cv |-> [ estimator |-> Pipeline(tm, clf), param_grid |-> << >>, cv |-> cv ] ]

\* number of combinations of a grid (len(ParameterGrid(param_grid)))
GridSize(g) == ProdLens(g)

-----------------------------------------------------------------------------
(* GridSearchCV(pipeline, param_grid=parameters, cv=5).fit, lines 144 and 201 *)

\* KFold(n_splits=cv) without shuffling: contiguous folds over the positions
\* 1..n, the first n % cv folds one row longer
FoldSize(n, f) == (n \div cv) + (IF f <= n % cv THEN 1 ELSE 0)

FoldStart(n, f) ==
    (f - 1) * (n \div cv) + (IF f - 1 <= n % cv THEN f - 1 ELSE n % cv) + 1

\* the positions held out in fold f
KFoldTest(n, f) == FoldStart(n, f) .. (FoldStart(n, f) + FoldSize(n, f) - 1)

\* the positions fitted on in fold f: the complement of the held-out mask
KFoldTrain(n, f) == (1..n) \ KFoldTest(n, f)

\* What fitting and scoring does on the data at hand is fixed by the data, not
\* by this script: an oracle names the fold-fits that raise and the scores of
\* the others.
FailPatterns == { "none", "first", "one_per_candidate", "candidate", "all" }

ScoreShapes == { "flat", "rising", "zigzag" }

Fails(pattern, G) ==
    CASE pattern = "none"              -> {}
      [] pattern = "first"             -> { << 1, 1 >> }
      [] pattern = "one_per_candidate" -> { << c, 1 >> : c \in 1..G }
      [] pattern = "candidate"         -> { << 2, f >> : f \in 1..cv }
      [] OTHER                         -> (1..G) \X (1..cv)

Oracles == [ fails : FailPatterns, shape : ScoreShapes ]

\* the score (subset accuracy, scaled to 0..MaxScore) of candidate c on fold f
FoldScore(o, c, f) ==
    CASE o.shape = "flat"   -> MaxScore
      [] o.shape = "rising" -> IF c - 1 < MaxScore THEN c - 1 ELSE MaxScore
      [] OTHER              -> (c + f) % (MaxScore + 1)

\* variant: error_score='raise', a failing fit is raised again
fit_and_score_raise(o, G, c, f) ==
    IF << c, f >> \in Fails(o.fails, G)
    THEN [ ok |-> FALSE, v |-> 0, raised |-> TRUE ]
    ELSE [ ok |-> TRUE,  v |-> FoldScore(o, c, f), raised |-> FALSE ]

\* _fit_and_score with error_score=np.nan (the default, line 144 passes none):
\* a fit that raises is caught and scored nan (ok = FALSE) instead of being
\* raised again; the others get their score
fit_and_score(o, G, c, f) ==
    IF << c, f >> \in Fails(o.fails, G)
    THEN [ ok |-> FALSE, v |-> 0, raised |-> FALSE ]
    ELSE [ ok |-> TRUE,  v |-> FoldScore(o, c, f), raised |-> FALSE ]

\* the results of candidate c among the collected ones (candidate-major order)
FoldResults(scores, c) == SubSeq(scores, (c - 1) * cv + 1, c * cv)

\* mean_test_score of candidate c, times cv: nan as soon as one fold is nan
mean_test_score(scores, c) ==
    LET rs == FoldResults(scores, c)
    IN  IF \E i \in 1..Len(rs) : ~rs[i].ok
        THEN [ ok |-> FALSE, v |-> 0 ]
        ELSE [ ok |-> TRUE,  v |-> SumSeq([ i \in 1..Len(rs) |-> rs[i].v ]) ]

\* _warn_or_raise_about_fit_failures: every single fit failed
all_fits_failed(scores) == \A i \in 1..Len(scores) : ~scores[i].ok

\* rank_test_score puts nan means below the smallest mean (nan_to_num with
\* nanmin - 1); best_index_ is the first candidate of rank 1
RankValue(scores, G, c) ==
    LET m  == mean_test_score(scores, c)
        ok == { d \in 1..G : mean_test_score(scores, d).ok }
        lo == IF ok = {} THEN 0
              ELSE CHOOSE x \in { mean_test_score(scores, d).v : d \in ok } :
                     \A d \in ok : x <= mean_test_score(scores, d).v
    IN  IF m.ok THEN m.v ELSE lo - 1

\* variant: the candidate of the last rank is taken
best_index_last(scores, G) ==
    CHOOSE c \in 1..G :
        /\ \A d \in 1..G : RankValue(scores, G, c) <= RankValue(scores, G, d)
        /\ \A d \in 1..(c - 1) : RankValue(scores, G, d) > RankValue(scores, G, c)

best_index_(scores, G) ==
    CHOOSE c \in 1..G :
        /\ \A d \in 1..G : RankValue(scores, G, c) >= RankValue(scores, G, d)
        /\ \A d \in 1..(c - 1) : RankValue(scores, G, d) < RankValue(scores, G, c)

NoSearch ==
    [ state |-> "Idle", oracle |-> [ fails |-> "none", shape |-> "flat" ],
      cand |-> 0, fold |-> 0, n_fits |-> 0, scores |-> << >>,
      train |-> {}, test |-> {}, best_index |-> 0 ]

-----------------------------------------------------------------------------
(* get_text_embeddings.transform, lines 54-70 *)

\* the pretrained model's vector for one message
Embed(m) == << "embedding", m >>

\* X.reset_index(drop=True, inplace=True): labels become 0..n-1, values stay
reset_index(S) == [ p \in 1..Len(S) |-> [ idx |-> p - 1, val |-> S[p].val ] ]

\* SentenceTransformer.encode(X): it fetches sentence i as X[i], which on a
\* Series with integer labels is a lookup by label, and raises KeyError when
\* no row carries the label
encode(S) ==
    IF \A i \in 0..(Len(S) - 1) : \E p \in 1..Len(S) : S[p].idx = i
    THEN [ ok |-> TRUE,
           rows |-> [ i \in 1..Len(S) |->
                        Embed(S[CHOOSE p \in 1..Len(S) : S[p].idx = i - 1].val) ] ]
    ELSE [ ok |-> FALSE, rows |-> << >> ]

\* variant: the input is encoded as it comes, without reset_index
transform_keep_labels(S) ==
    [ X |-> S, embeddings |-> encode(S) ]

\* lines 65-70: the input is relabelled in place, then encoded
transform(S) ==
    [ X |-> reset_index(S), embeddings |-> encode(reset_index(S)) ]

\* TfidfVectorizer(tokenizer=tokenize).transform iterates over the values
Tfidf(m) == << "tfidf", m >>
tfidf_transform(S) == [ p \in 1..Len(S) |-> Tfidf(S[p].val) ]

\* FeatureUnion.transform (lines 118-128): every extractor sees the same
\* object, the text pipeline first; the outputs are stacked side by side
FeatureUnion_transform(S) ==
    LET lex == tfidf_transform(S)
        sem == transform(S)
    IN  [ X  |-> sem.X,
          ok |-> sem.embeddings.ok,
          features |-> IF sem.embeddings.ok
                       THEN [ p \in 1..Len(S) |-> << lex[p], sem.embeddings.rows[p] >> ]
                       ELSE << >> ]

-----------------------------------------------------------------------------
(* evaluate_model, lines 148-167 *)

\* threshold = 0.5, in tenths
threshold == 5

\* variant: a strict comparison
Binarize_strict(value) == IF value > threshold THEN 1 ELSE 0

\* line 164: 1 if value >= threshold else 0
Binarize(value) == IF value >= threshold THEN 1 ELSE 0

\* classification_report(y_true, y_pred, target_names): one row per label
\* column of y_true, in column order, named by target_names
classification_report(y_true, y_pred, target_names) ==
    LET n == Len(y_true)
        m == IF n = 0 THEN 0 ELSE Len(y_true[1])
    IN  [ j \in 1..m |->
            [ name    |-> target_names[j],
              support |-> Cardinality({ i \in 1..n : y_true[i][j] = 1 }),
              tp      |-> Cardinality({ i \in 1..n : y_true[i][j] = 1 /\ y_pred[i][j] = 1 }),
              fp      |-> Cardinality({ i \in 1..n : y_true[i][j] = 0 /\ y_pred[i][j] = 1 }),
              fn      |-> Cardinality({ i \in 1..n : y_true[i][j] = 1 /\ y_pred[i][j] = 0 }) ] ]

\* lines 158-167, given what model.predict(X_test) returned
evaluate_model(predicted, Ytest, names) ==
    LET Y_pred_test == [ i \in 1..Len(predicted) |->
                           [ j \in 1..Len(predicted[i]) |-> Binarize(predicted[i][j]) ] ]
    IN  [ Y_pred_test |-> Y_pred_test,
          report |-> classification_report(
                         [ i \in 1..Len(Ytest) |-> Ytest[i].row ], Y_pred_test, names) ]

-----------------------------------------------------------------------------
(* main, lines 180-215 *)

ArgCounts == 1..MaxArgs

\* variant: the guard written as "at least two arguments"
ArgsOk_AtLeast(n) == n >= 3

\* line 181: len(sys.argv) == 3
ArgsOk(n) == n = 3

NoModel == [ stage |-> "none", clf |-> "", param_grid |-> << >>, best_params |-> 0 ]

NoReport == [ made |-> FALSE, Y_pred_test |-> << >>, rows |-> << >> ]

NoSplit == [ has_split |-> FALSE, train |-> << >>, test |-> << >> ]

Values(S) == [ p \in 1..Len(S) |-> S[p].val ]

\* a process starts: nothing loaded, nothing printed
Fresh ==
    /\ pc = "start"
    /\ stdout = << >>
    /\ error = ""
    /\ X = << >> /\ Y = << >> /\ category_names = << >>
    /\ X_train = << >> /\ X_test = << >> /\ Y_train = << >> /\ Y_test = << >>
    /\ transformer_model = "unset"
    /\ model = NoModel
    /\ search = NoSearch
    /\ report = NoReport

NoCall == [ fn |-> "idle" ]

Init ==
    /\ argv_len \in ArgCounts
    /\ database \in { "ok", "missing" }
    /\ table \in Tables
    /\ file \in { "absent", "complete" }
    /\ runs = 1
    /\ prev = [ split |-> NoSplit, file |-> file ]
    /\ Fresh
    /\ call = NoCall

\* the text of lines 212-215
UsageText == << "Please provide the filepath" >>

\* lines 211-215: any other argument count prints the usage text and returns
MainUsage ==
    /\ pc = "start"
    /\ ~ArgsOk(argv_len)
    /\ stdout' = stdout \o UsageText
    /\ pc' = "usage"
    /\ UNCHANGED << argv_len, database, table, error, X, Y, category_names,
                    X_train, X_test, Y_train, Y_test, transformer_model, model,
                    search, report, file, runs, prev, call >>

\* lines 182-184: load_data reads the table, or raises when it is not there
MainLoadData ==
    /\ pc = "start"
    /\ ArgsOk(argv_len)
    /\ stdout' = Append(stdout, "Loading data...")
    /\ IF database = "ok"
       THEN /\ X' = load_data(table).X
            /\ Y' = load_data(table).y
            /\ category_names' = load_data(table).category_names
            /\ pc' = "loaded"
            /\ error' = error
       ELSE /\ pc' = "aborted"
            /\ error' = "load_data: table not found"
            /\ UNCHANGED << X, Y, category_names >>
    /\ UNCHANGED << argv_len, database, table, X_train, X_test, Y_train, Y_test,
                    transformer_model, model, search, report, file, runs, prev, call >>

\* line 187: the split, drawn from the generator's state of this process
MainSplit ==
    /\ pc = "loaded"
    /\ \E seed \in 0..MaxSeed :
         LET s == train_test_split(X, Y, seed)
         IN  /\ X_train' = s.X_train
             /\ X_test'  = s.X_test
             /\ Y_train' = s.Y_train
             /\ Y_test'  = s.Y_test
    /\ pc' = "split"
    /\ UNCHANGED << argv_len, database, table, stdout, error, X, Y, category_names,
                    transformer_model, model, search, report, file, runs, prev, call >>

\* lines 189-190: the global embedding model is loaded
MainLoadTransformer ==
    /\ pc = "split"
    /\ transformer_model' = "paraphrase-MiniLM-L6-v2"
    /\ pc' = "embedder"
    /\ UNCHANGED << argv_len, database, table, stdout, error, X, Y, category_names,
                    X_train, X_test, Y_train, Y_test, model, search, report,
                    file, runs, prev, call >>

\* lines 193-194: the two shape printouts on X_train[0:2], a slice of its own
MainShapes ==
    /\ pc = "embedder"
    /\ LET head == SubSeq(X_train, 1, 2)
       IN  stdout' = stdout \o << "tfidf features shape",
                IF transform(head).embeddings.ok
                THEN "embedding features shape" ELSE "KeyError" >>
    /\ pc' = "shapes"
    /\ UNCHANGED << argv_len, database, table, error, X, Y, category_names,
                    X_train, X_test, Y_train, Y_test, transformer_model, model,
                    search, report, file, runs, prev, call >>

\* lines 197-198: build_model(transformer_model, clf=AdaBoostClassifier())
MainBuild ==
    /\ pc = "shapes"
    /\ stdout' = Append(stdout, "Building model...")
    /\ LET r == build_model(transformer_model, MainClf)
       IN  IF r.ok
           THEN /\ model' = [ stage |-> "built", clf |-> r.cv.estimator.clf,
                              param_grid |-> r.cv.param_grid, best_params |-> 0 ]
                /\ pc' = "built"
                /\ error' = error
           ELSE /\ model' = model
                /\ pc' = "aborted"
                /\ error' = r.error
    /\ UNCHANGED << argv_len, database, table, X, Y, category_names,
                    X_train, X_test, Y_train, Y_test, transformer_model,
                    search, report, file, runs, prev, call >>

\* lines 200-201: model.fit(X_train, Y_train) starts; the folds are laid out
MainFit ==
    /\ pc = "built"
    /\ stdout' = Append(stdout, "Training model...")
    /\ \E o \in Oracles :
         search' = [ NoSearch EXCEPT !.state = "Evaluating", !.oracle = o,
                                     !.cand = 1, !.fold = 1 ]
    /\ pc' = "fitting"
    /\ UNCHANGED << argv_len, database, table, error, X, Y, category_names,
                    X_train, X_test, Y_train, Y_test, transformer_model, model,
                    report, file, runs, prev, call >>

\* one fold-fit of one candidate: fit on the other folds, score on this one;
\* an exception that _fit_and_score lets through ends fit() and the run
FoldFit ==
    /\ pc = "fitting"
    /\ search.state = "Evaluating"
    /\ LET G == GridSize(model.param_grid)
           c == search.cand
           f == search.fold
           n == Len(X_train)
           r == fit_and_score(search.oracle, G, c, f)
       IN  IF r.raised
           THEN /\ search' = [ search EXCEPT
                       !.n_fits = @ + 1,
                       !.train  = KFoldTrain(n, f),
                       !.test   = KFoldTest(n, f),
                       !.state  = "Failed" ]
                /\ pc' = "aborted"
                /\ error' = "fit raised"
           ELSE /\ search' = [ search EXCEPT
                       !.scores = Append(@, [ ok |-> r.ok, v |-> r.v ]),
                       !.n_fits = @ + 1,
                       !.train  = KFoldTrain(n, f),
                       !.test   = KFoldTest(n, f),
                       !.fold   = IF f < cv THEN f + 1 ELSE 1,
                       !.cand   = IF f < cv THEN c ELSE c + 1,
                       !.state  = IF f = cv /\ c = G THEN "Selecting" ELSE "Evaluating" ]
                /\ pc' = pc
                /\ error' = error
    /\ UNCHANGED << argv_len, database, table, stdout, X, Y,
                    category_names, X_train, X_test, Y_train, Y_test,
                    transformer_model, model, report, file, runs, prev, call >>

\* all results are in: raise when every fit failed, else rank and select
SearchSelect ==
    /\ pc = "fitting"
    /\ search.state = "Selecting"
    /\ IF all_fits_failed(search.scores)
       THEN /\ search' = [ search EXCEPT !.state = "Failed" ]
            /\ pc' = "aborted"
            /\ error' = "GridSearchCV: all fits failed"
       ELSE /\ search' = [ search EXCEPT !.state = "Refit",
                  !.best_index = best_index_(search.scores, GridSize(model.param_grid)) ]
            /\ pc' = pc
            /\ error' = error
    /\ UNCHANGED << argv_len, database, table, stdout, X, Y, category_names,
                    X_train, X_test, Y_train, Y_test, transformer_model, model,
                    report, file, runs, prev, call >>

\* refit=True: the best candidate is fitted on the whole of X_train, which the
\* embedding step relabels in place.  (The failures considered are those of
\* the fold-fits; the final fit is taken to succeed.)
SearchRefit ==
    /\ pc = "fitting"
    /\ search.state = "Refit"
    /\ X_train' = FeatureUnion_transform(X_train).X
    /\ model' = [ model EXCEPT !.stage = "fitted", !.best_params = search.best_index ]
    /\ search' = [ search EXCEPT !.state = "Done" ]
    /\ pc' = "fitted"
    /\ UNCHANGED << argv_len, database, table, stdout, error, X, Y, category_names,
                    X_test, Y_train, Y_test, transformer_model, report, file,
                    runs, prev, call >>

\* what the fitted classifiers answer on the held-out rows: the class labels
\* 0 and 1 (0 and 10 tenths), here all 0, all 1 or the true labels
PredictPatterns == { "zeros", "ones", "truth" }

predict(pattern, Ytest) ==
    [ i \in 1..Len(Ytest) |->
        [ j \in 1..Len(Ytest[i].row) |->
            CASE pattern = "zeros" -> 0
              [] pattern = "ones"  -> 10
              [] OTHER             -> 10 * Ytest[i].row[j] ] ]

\* lines 203-204: evaluate_model; predict relabels X_test in place
MainEvaluate ==
    /\ pc = "fitted"
    /\ X_test' = FeatureUnion_transform(X_test).X
    /\ \E pattern \in PredictPatterns :
         LET e == evaluate_model(predict(pattern, Y_test), Y_test, category_names)
         IN  report' = [ made |-> TRUE, Y_pred_test |-> e.Y_pred_test, rows |-> e.report ]
    /\ stdout' = stdout \o << "Evaluating model...", "classification report" >>
    /\ pc' = "evaluated"
    /\ UNCHANGED << argv_len, database, table, error, X, Y, category_names,
                    X_train, Y_train, Y_test, transformer_model, model, search,
                    file, runs, prev, call >>

\* lines 206-207 and 177: open(model_filepath, 'wb') creates or truncates the
\* file, or raises and touches nothing
SaveOpen ==
    /\ pc = "evaluated"
    /\ stdout' = Append(stdout, "Saving model...")
    /\ \E opened \in BOOLEAN :
         IF opened
         THEN /\ file' = "truncated"
              /\ pc' = "saving"
              /\ error' = error
         ELSE /\ file' = file
              /\ pc' = "aborted"
              /\ error' = "open: OSError"
    /\ UNCHANGED << argv_len, database, table, X, Y, category_names, X_train,
                    X_test, Y_train, Y_test, transformer_model, model, search,
                    report, runs, prev, call >>

\* line 178: pickle.dump writes the whole model, or raises part-way and the
\* with-block closes the file as it is
SaveDump ==
    /\ pc = "saving"
    /\ \E outcome \in { "complete", "truncated" } :
         /\ file' = outcome
         /\ pc' = IF outcome = "complete" THEN "saved" ELSE "aborted"
         /\ error' = IF outcome = "complete" THEN error ELSE "pickle.dump raised"
    /\ UNCHANGED << argv_len, database, table, stdout, X, Y, category_names,
                    X_train, X_test, Y_train, Y_test, transformer_model, model,
                    search, report, runs, prev, call >>

\* line 209
MainDone ==
    /\ pc = "saved"
    /\ stdout' = Append(stdout, "Trained model saved!")
    /\ pc' = "done"
    /\ UNCHANGED << argv_len, database, table, error, X, Y, category_names,
                    X_train, X_test, Y_train, Y_test, transformer_model, model,
                    search, report, file, runs, prev, call >>

Terminated == pc \in { "usage", "done", "aborted" }

\* the split a run made, by message values (labels may have been rewritten)
SplitOf(train, test) ==
    IF train = << >> /\ test = << >> THEN NoSplit
    ELSE [ has_split |-> TRUE, train |-> Values(train), test |-> Values(test) ]

\* the script is started again on the same table and model path
Rerun ==
    /\ Terminated
    /\ runs < MaxRuns
    /\ runs' = runs + 1
    /\ prev' = [ split |-> SplitOf(X_train, X_test), file |-> file ]
    /\ argv_len' \in ArgCounts
    /\ pc' = "start"
    /\ stdout' = << >>
    /\ error' = ""
    /\ X' = << >> /\ Y' = << >> /\ category_names' = << >>
    /\ X_train' = << >> /\ X_test' = << >> /\ Y_train' = << >> /\ Y_test' = << >>
    /\ transformer_model' = "unset"
    /\ model' = NoModel
    /\ search' = NoSearch
    /\ report' = NoReport
    /\ UNCHANGED << database, table, file, call >>

Next ==
    \/ MainUsage
    \/ MainLoadData
    \/ MainSplit
    \/ MainLoadTransformer
    \/ MainShapes
    \/ MainBuild
    \/ MainFit
    \/ FoldFit
    \/ SearchSelect
    \/ SearchRefit
    \/ MainEvaluate
    \/ SaveOpen
    \/ SaveDump
    \/ MainDone
    \/ Rerun

Spec == Init /\ [][Next]_vars

-----------------------------------------------------------------------------
(* Direct calls of the module's functions *)

\* rows of the prediction table handed to evaluate_model
EvalRows == 2
\* longest message subset handed to transform
MaxLen == 3

\* values a model's predict may return, in tenths
UnitValues == { 0, 4, 5, 6, 10 }

\* the orders in which n of the table's rows can be picked
Picks(n) ==
    { ind \in [ 1..n -> 1..NumRows ] :
        \A a, b \in 1..n : a # b => ind[a] # ind[b] }

InitUnits ==
    /\ argv_len = 3
    /\ database = "ok"
    /\ table = MixedTable
    /\ file = "absent"
    /\ runs = 1
    /\ prev = [ split |-> NoSplit, file |-> file ]
    /\ Fresh
    /\ call = NoCall

\* build_model(transformer_model) or build_model(transformer_model, clf=...)
CallBuildModel ==
    /\ call.fn = "idle"
    /\ \E defaulted \in BOOLEAN, given \in ClfKinds :
         LET clf == IF defaulted THEN DefaultClf ELSE given
         IN  call' = [ fn |-> "build_model", defaulted |-> defaulted, clf |-> clf,
                       result |-> build_model("paraphrase-MiniLM-L6-v2", clf) ]
    /\ UNCHANGED mainVars

\* evaluate_model(model, X_test, Y_test, category_names) on a model whose
\* predict returns the table `predicted`
CallEvaluateModel ==
    /\ call.fn = "idle"
    /\ \E t \in Tables,
          predicted \in [ 1..EvalRows -> [ 1..Len(CategoryColumns) -> UnitValues ] ] :
         LET d == load_data(t)
             e == evaluate_model(predicted, SubSeq(d.y, 1, EvalRows), d.category_names)
         IN  call' = [ fn |-> "evaluate_model", table |-> t, predicted |-> predicted,
                       category_names |-> d.category_names,
                       Y_pred_test |-> e.Y_pred_test, report |-> e.report ]
    /\ UNCHANGED mainVars

\* the feature union on a subset of the messages, as a split or a fold hands
\* it over: rows picked by position, original labels kept
CallTransform ==
    /\ call.fn = "idle"
    /\ \E n \in 1..MaxLen : \E ind \in Picks(n) :
         LET d  == load_data(table)
             S  == Take(d.X, ind)
             t  == transform(S)
             fu == FeatureUnion_transform(S)
         IN  call' = [ fn |-> "transform", X_in |-> S, Y_in |-> Take(d.y, ind),
                       X_out |-> t.X, embeddings |-> t.embeddings,
                       features |-> fu.features ]
    /\ UNCHANGED mainVars

CallReturn ==
    /\ call.fn # "idle"
    /\ call' = NoCall
    /\ UNCHANGED mainVars

NextUnits ==
    \/ CallBuildModel
    \/ CallEvaluateModel
    \/ CallTransform
    \/ CallReturn

SpecUnits == InitUnits /\ [][NextUnits]_vars

-----------------------------------------------------------------------------
(* Properties *)

\* C1: a run started with an argument count other than two positional inputs
\* (len(sys.argv) # 3) prints the usage text and does nothing else: no table is
\* read, no embedding model loaded, no model built or fitted, no evaluation
\* made, and the file at the model path is left as it was.
C1_WrongArgCountOnlyPrintsUsage ==
    argv_len # 3 =>
        /\ pc \in { "start", "usage" }
        /\ (pc = "usage") = (stdout = UsageText)
        /\ (pc = "start") = (stdout = << >>)
        /\ X = << >> /\ Y = << >> /\ category_names = << >>
        /\ X_train = << >> /\ X_test = << >>
        /\ transformer_model = "unset"
        /\ model.stage = "none"
        /\ search.state = "Idle" /\ search.n_fits = 0
        /\ ~report.made
        /\ file = prev.file
        /\ error = ""

C1_Witness == pc = "usage" /\ argv_len > 3 /\ stdout = UsageText

\* C2: build_model given a classifier of either supported kind returns a search
\* controller holding that kind's own non-empty grid (max_iter/penalty for
\* logistic regression, learning_rate/n_estimators for the boosted ensemble);
\* the call with the default classifier is one of these.
C2_BuildModelGridPerKind ==
    (call.fn = "build_model" /\ call.clf \in { "LogisticRegression", "AdaBoostClassifier" }) =>
        /\ call.result.ok
        /\ call.result.cv.param_grid # << >>
        /\ call.clf = "LogisticRegression" =>
             [ i \in 1..Len(call.result.cv.param_grid) |-> call.result.cv.param_grid[i].name ]
               = << "clf__estimator__max_iter", "clf__estimator__penalty" >>
        /\ call.clf = "AdaBoostClassifier" =>
             [ i \in 1..Len(call.result.cv.param_grid) |-> call.result.cv.param_grid[i].name ]
               = << "clf__estimator__learning_rate", "clf__estimator__n_estimators" >>

\* the place where a configuration error can surface has been passed:
\* build_model has resolved the grid or raised
ConfigurationResolved == model.stage # "none" \/ error = "UnboundLocalError"

C4_NoPartialArtifact ==
    pc = "aborted" => (file = prev.file \/ file = "complete")

\* the grid's number of combinations, from the grid itself
C5_G == Len(model.param_grid[1].values) * Len(model.param_grid[2].values)

\* the fold scores of candidate c, and their sum (the average times k)
C5_Folds(c) == { (c - 1) * 5 + f : f \in 1..5 }
C5_Defined(c) == \A t \in C5_Folds(c) : search.scores[t].ok
C5_Total(c) ==
    search.scores[(c - 1) * 5 + 1].v + search.scores[(c - 1) * 5 + 2].v
    + search.scores[(c - 1) * 5 + 3].v + search.scores[(c - 1) * 5 + 4].v
    + search.scores[(c - 1) * 5 + 5].v

\* the fold of the latest fold-fit, and the rows of the other four folds
C5_LastFold == ((search.n_fits - 1) % 5) + 1
C5_OtherFolds ==
    UNION { KFoldTest(Len(X_train), g) : g \in (1..5) \ { C5_LastFold } }

\* C5: with G combinations and k = 5 folds the search makes exactly G*5
\* fold-fits, every fold-fit holds out one fold and trains on the other four,
\* which share no row with it, and the combination selected (and refitted on the
\* whole training set) has an average score at least as high as every other
\* combination's average.
C5_SearchFitsAndSelectsBest ==
    /\ search.state = "Evaluating" =>
         search.n_fits = (search.cand - 1) * 5 + (search.fold - 1)
    /\ search.state \in { "Selecting", "Refit", "Done" } =>
         (search.n_fits = C5_G * 5 /\ Len(search.scores) = C5_G * 5)
    /\ search.n_fits > 0 =>
         /\ search.test = KFoldTest(Len(X_train), C5_LastFold)
         /\ search.test # {}
         /\ search.train = C5_OtherFolds
         /\ search.train \cap search.test = {}
         /\ search.train \cup search.test = 1..Len(X_train)
    /\ search.state \in { "Refit", "Done" } =>
         /\ search.best_index \in 1..C5_G
         /\ \A d \in 1..C5_G :
              C5_Defined(d) =>
                 /\ C5_Defined(search.best_index)
                 /\ C5_Total(search.best_index) >= C5_Total(d)
    /\ model.stage = "fitted" =>
         (search.state = "Done" /\ model.best_params = search.best_index)

C5_Witness ==
    /\ search.state = "Done"
    /\ search.oracle.fails = "none"
    /\ search.n_fits = 45
    /\ search.best_index > 1
    /\ \E d \in 1..C5_G : C5_Total(d) < C5_Total(search.best_index)

\* the fold-fits the data at hand makes raise, as positions of the results
C6_Failing ==
    { (f[1] - 1) * 5 + f[2] : f \in Fails(search.oracle.fails, C5_G) }

\* C6 (state part): a fold-fit that raises is recorded as a failing score and
\* nothing else happens to the search; a candidate with a failing fold never
\* wins over one without; the search fails only after all G*5 fold-fits were
\* made and every one of them failed, and then the run ends with nothing
\* fitted, evaluated or written.
C6_FoldFailureIsLocal ==
    /\ \A t \in 1..Len(search.scores) : (t \in C6_Failing) = ~search.scores[t].ok
    /\ search.state \in { "Refit", "Done" } =>
         /\ search.n_fits = C5_G * 5
         /\ search.best_index \in 1..C5_G
         /\ (\E d \in 1..C5_G : C5_Defined(d)) => C5_Defined(search.best_index)
    /\ search.state = "Failed" =>
         /\ search.n_fits = C5_G * 5
         /\ Len(search.scores) = C5_G * 5
         /\ \A t \in 1..Len(search.scores) : ~search.scores[t].ok
         /\ pc = "aborted"
         /\ model.stage # "fitted"
         /\ ~report.made
         /\ file = prev.file
    /\ (pc = "aborted" /\ search.state # "Idle") =>
         search.state \in { "Failed", "Done" }

\* a search is under way on data where not every fold-fit raises
C6_SomeFitSucceeds ==
    /\ pc = "fitting"
    /\ search.state = "Evaluating"
    /\ C6_Failing # 1..(C5_G * 5)

C6_SearchDone ==
    /\ search.state = "Done"
    /\ search.best_index \in 1..C5_G
    /\ model.stage = "fitted"

\* C6: a fit error on a fold of a combination is recovered locally (scored as
\* failing, the remaining folds and combinations still evaluated), the search
\* still reaches Done with a selected combination, and it fails fatally, with
\* no artifact saved, only if every combination fails.
C6_SearchSurvivesFoldFailures ==
    /\ []C6_FoldFailureIsLocal
    /\ (C6_SomeFitSucceeds ~> C6_SearchDone)

C6_Witness ==
    /\ search.state = "Done"
    /\ search.oracle.fails = "first"
    /\ ~search.scores[1].ok
    /\ search.n_fits = 45
    /\ search.best_index > 1

\* column j of a label matrix holds one value only
Degenerate(Ys, j) == \A a, b \in 1..Len(Ys) : Ys[a].row[j] = Ys[b].row[j]

\* C7: when a category column is all-zero or all-one over the training set,
\* training aborts: no per-category classifier set is fitted, and neither the
\* evaluation nor save_model is reached.
C7_DegenerateColumnAborts ==
    (Y_train # << >> /\ \E j \in 1..Len(category_names) : Degenerate(Y_train, j)) =>
        /\ model.stage # "fitted"
        /\ ~report.made
        /\ pc \notin { "fitted", "evaluated", "saving", "saved", "done" }

\* C8: the split is stable: every message, with its own label row, is in
\* exactly one of the two subsets, the held-out subset is the 20% share, and a
\* second run on the same table yields the same two subsets as the first.
C8_SplitStable ==
    X_train # << >> =>
        /\ Range(Values(X_train)) \cap Range(Values(X_test)) = {}
        /\ Range(Values(X_train)) \cup Range(Values(X_test)) = Range(Values(X))
        /\ Len(X_train) + Len(X_test) = Len(X)
        /\ 5 * (Len(X_test) - 1) < Len(X) /\ Len(X) <= 5 * Len(X_test)
        /\ \A p \in 1..Len(X_train) :
             /\ Y_train[p].idx = X_train[p].val
             /\ Y_train[p].row = Y[X_train[p].val + 1].row
        /\ \A p \in 1..Len(X_test) :
             /\ Y_test[p].idx = X_test[p].val
             /\ Y_test[p].row = Y[X_test[p].val + 1].row
        /\ prev.split.has_split =>
             /\ Range(Values(X_train)) = Range(prev.split.train)
             /\ Range(Values(X_test)) = Range(prev.split.test)

\* C9: evaluate_model turns every value v of the model's output into 1 when
\* v >= 0.5 and into 0 otherwise (0.5 itself is positive), each cell on its own,
\* and its report has one row per category column, named and ordered as the
\* category columns load_data returned.
C9_ThresholdAndReportRows ==
    call.fn = "evaluate_model" =>
        /\ Len(call.Y_pred_test) = Len(call.predicted)
        /\ \A i \in 1..Len(call.predicted) : \A j \in 1..Len(call.predicted[i]) :
             call.Y_pred_test[i][j] = (IF 2 * call.predicted[i][j] >= 10 THEN 1 ELSE 0)
        /\ call.category_names = CategoryColumns
        /\ Len(call.report) = Len(CategoryColumns)
        /\ \A j \in 1..Len(call.report) : call.report[j].name = CategoryColumns[j]

C9_Witness ==
    /\ call.fn = "evaluate_model"
    /\ call.predicted[1][1] = 5 /\ call.Y_pred_test[1][1] = 1
    /\ call.predicted[1][2] = 4 /\ call.Y_pred_test[1][2] = 0
    /\ call.predicted[2][1] = 6 /\ call.Y_pred_test[2][1] = 1

\* C10: for a message subset with arbitrary row labels, transform returns one
\* vector per message, row i being the embedding of the message at position i;
\* of its input it rewrites only the labels, to 0..n-1, leaving values and
\* order alone; so row i of the lexical features, of the semantic features and
\* of the label matrix belong to the same message.
C10_TransformKeepsRowsAligned ==
    call.fn = "transform" =>
        /\ call.embeddings.ok
        /\ Len(call.embeddings.rows) = Len(call.X_in)
        /\ \A i \in 1..Len(call.X_in) :
             /\ call.embeddings.rows[i] = << "embedding", call.X_in[i].val >>
             /\ call.X_out[i].val = call.X_in[i].val
             /\ call.X_out[i].idx = i - 1
             /\ call.features[i] = << << "tfidf", call.X_in[i].val >>,
                                      << "embedding", call.X_in[i].val >> >>
             /\ call.Y_in[i].idx = call.X_in[i].val
        /\ Len(call.X_out) = Len(call.X_in)
        /\ Len(call.features) = Len(call.X_in)

C10_Witness ==
    /\ call.fn = "transform"
    /\ Len(call.X_in) = 3
    /\ call.X_in[1].idx = 5 /\ call.X_in[2].idx = 0 /\ call.X_in[3].idx = 2
    /\ call.embeddings.ok
    /\ call.X_out[1].idx = 0

-----------------------------------------------------------------------------
(* A run, once started, is carried on to its end; whether the script is ever
   started again is up to the user. *)

RunStep ==
    \/ MainUsage \/ MainLoadData \/ MainSplit \/ MainLoadTransformer
    \/ MainShapes \/ MainBuild \/ MainFit \/ FoldFit \/ SearchSelect
    \/ SearchRefit \/ MainEvaluate \/ SaveOpen \/ SaveDump \/ MainDone

\* what the search does is settled by the fold-fits' outcomes, not by the
\* labels: the runs on the table without an irregular column
InitSearch == Init /\ table = MixedTable

FairSpec == InitSearch /\ [][Next]_vars /\ WF_vars(RunStep)

=============================================================================
